---- MODULE Spec2Model ----
(***************************************************************************)
(* A model of the trace-driven cache simulator: the driver (cachesim.c),   *)
(* the trace reader (trace_file_parser.c) and the cache core (cache.c).    *)
(*                                                                         *)
(* unsigned int is 32 bits wide.  Values that main() can pass are below    *)
(* 2^31 (they come from atoi and are checked to be positive), so they are  *)
(* kept as plain integers; the one product that can leave that range,      *)
(* associativity * block_size, is computed on 16-bit halves <<hi, lo>> so  *)
(* that it wraps modulo 2^32 exactly as the C code does.                   *)
(*                                                                         *)
(* Memory allocation is taken to succeed.                                  *)
(***************************************************************************)
EXTENDS Integers, Sequences, FiniteSets, TLC

VARIABLES
    pc,            \* position of main(): which statement runs next
    argc,          \* number of command-line words
    args,          \* <<cache_size, cache_associativity, cache_block_size>> as atoi returns them
    readable,      \* whether fopen(argv[1], "r") will succeed
    retval,        \* main's retval
    c,             \* main's struct cache* c (NULL or the cache)
    trace_file,    \* the reader's static FILE*: NULL, or where the stream stands
    mr,            \* main's struct memory_reference mr
    printed,       \* whether the statistics have been printed
    exit_code,     \* the value main returned or exit() was given
    calls,         \* number of do_reference calls made so far, counted up to MaxColdRefs
    last,          \* what the most recent completed do_reference did (<< >> before the first)
    seen,          \* per set, the address of the most recent reference that mapped to it
    line,          \* the trace line the pending get_next_reference result was parsed from (<< >> if none)
    error,         \* the error message create_cache_struct printed ("" if none)
    twin           \* the cache of a second run on the same geometry and addresses (NULL if none)

vars == <<pc, argc, args, readable, retval, c, trace_file, mr, printed,
          exit_code, calls, last, seen, line, error, twin>>

-----------------------------------------------------------------------------
(* Bounds of the model *)

\* do_reference calls in one run
MaxRefs == 3
\* do_reference calls in one run over a trace of well-formed lines
MaxColdRefs == 5
\* reference addresses are 0..MaxAddr, and 0x20
MaxAddr == 3
\* values an uninitialised lru_value may hold: 0..MaxGarbage
MaxGarbage == 1

-----------------------------------------------------------------------------
(* Program constants *)

INSTRUCTION == 0
DATA_READ == 1
DATA_WRITE == 2
\* a reference type read from uninitialised memory that is none of the three
GarbageType == 3
\* sizeof(int) << 3
IntBits == 32
\* the lru_value of a block that was never written (malloc'ed, not set)
Undef == -1

REFERENCE_TYPE == {INSTRUCTION, DATA_READ, DATA_WRITE}

NULL == [ptr |-> "NULL"]

-----------------------------------------------------------------------------
(* 32-bit unsigned arithmetic *)

Half == 2 ^ 16
Byte == 2 ^ 8

\* bit i of n, for 0 <= n < 2^31 (bit 31 of such a number is 0)
Bit(n, i) == IF i >= IntBits - 1 THEN 0 ELSE (n \div (2 ^ i)) % 2

\* n >> k and n & ((1 << k) - 1) for 0 <= n < 2^31 and k < 31
ShiftRight(n, k) == n \div (2 ^ k)
LowBits(n, k) == n % (2 ^ k)

\* a * b modulo 2^32 for 0 <= a, b < 2^31, as the word <<hi, lo>> of 16-bit
\* halves.  With a = ah*2^16 + al and b = bh*2^16 + bl,
\*   a * b = al*bl + (ah*bl + al*bh) * 2^16   (mod 2^32),
\* and al*bl is summed from the two bytes of bl so that no intermediate
\* value leaves the integers the checker can hold.
WordMul(a, b) ==
    LET ah == a \div Half
        al == a % Half
        bh == b \div Half
        bl == b % Half
        p0 == al * (bl % Byte)
        p1 == al * (bl \div Byte)
        low == (p1 % Byte) * Byte + p0
        carry == p1 \div Byte + low \div Half
    IN  <<(carry + ((ah * bl) % Half) + ((al * bh) % Half)) % Half, low % Half>>

\* size / w for a size below 2^31 and a non-zero word w
WordDiv(size, w) ==
    IF w[1] >= Half \div 2 THEN 0 ELSE size \div (w[1] * Half + w[2])

-----------------------------------------------------------------------------
(* cache.c: helpers *)

\* the loop over the sizeof(int) << 3 bits of n counts the bits that are 1
is_power_of_two(n) == Cardinality({i \in 0 .. IntBits - 1 : Bit(n, i) = 1}) = 1

\* log_two that counts the positions from 1
log_two_from_one(n) ==
    IF ~is_power_of_two(n) THEN 0 - 1
    ELSE 1 + CHOOSE i \in 0 .. IntBits - 1 :
                Bit(n, i) = 1 /\ \A j \in 0 .. i - 1 : Bit(n, j) = 0

\* the position of the first 1 bit, or -1
log_two(n) ==
    IF ~is_power_of_two(n) THEN 0 - 1
    ELSE CHOOSE i \in 0 .. IntBits - 1 :
            Bit(n, i) = 1 /\ \A j \in 0 .. i - 1 : Bit(n, j) = 0

-----------------------------------------------------------------------------
(* cache.c: construction *)

\* sizeof(void*) << 3 on the hosts the program is built for.  The width is
\* recorded in addr_info and read by nothing else, so the runs that follow
\* the references take the 64-bit host; the runs of SpecWidths take both.
PointerBits == {64}
HostPointerBits == {32, 64}

\* unsigned int number_of_sets = size / (associativity * block_size);
\* dz is the quotient a division by zero yields where it does not trap
number_of_sets(size, associativity, block_size, dz) ==
    LET product == WordMul(associativity, block_size)
    IN  IF product = <<0, 0>> THEN dz ELSE WordDiv(size, product)

divides_by_zero(associativity, block_size) ==
    is_power_of_two(block_size) /\ WordMul(associativity, block_size) = <<0, 0>>

determine_address_widths(block_size, sets, width) ==
    LET offset_width == log_two(block_size)
        index_width == log_two(sets)
        tag_width == width - offset_width - index_width
        ok == offset_width # -1 /\ index_width # -1
    IN  [address_width |-> IF ok THEN width ELSE 0,
         offset_width |-> IF offset_width = -1 THEN 0 ELSE offset_width,
         index_width |-> IF index_width = -1 THEN 0 ELSE index_width,
         tag_width |-> IF ok THEN tag_width ELSE 0]

\* a block that the allocation loop marks valid
new_block_valid == [valid |-> TRUE, dirty |-> FALSE, lru_value |-> Undef, tag |-> 0]

\* a block as the allocation loop leaves it: lru_value is not written
new_block == [valid |-> FALSE, dirty |-> FALSE, lru_value |-> Undef, tag |-> 0]

zero_perf ==
    [instruction_reference_count |-> 0, instruction_miss_count |-> 0,
     data_read_reference_count |-> 0, data_read_miss_count |-> 0,
     data_write_reference_count |-> 0, data_write_miss_count |-> 0]

\* the error messages of create_cache_struct
InvalidBlockSize == "ERROR: Cache block size is not a power of two."
ZeroSets == "ERROR: Number of sets must be non-zero."
InvalidSetCount == "ERROR: Number of sets must be a power of two."

\* create_cache_struct that tests for a power of two before it tests for zero
create_cache_error_power_first(size, associativity, block_size, dz) ==
    LET sets == number_of_sets(size, associativity, block_size, dz)
    IN  IF ~is_power_of_two(block_size) THEN InvalidBlockSize
        ELSE IF ~is_power_of_two(sets) THEN InvalidSetCount
        ELSE IF sets = 0 THEN ZeroSets
        ELSE ""

\* the message create_cache_struct prints before it returns NULL
create_cache_error(size, associativity, block_size, dz) ==
    LET sets == number_of_sets(size, associativity, block_size, dz)
    IN  IF ~is_power_of_two(block_size) THEN InvalidBlockSize
        ELSE IF sets = 0 THEN ZeroSets
        ELSE IF ~is_power_of_two(sets) THEN InvalidSetCount
        ELSE ""

create_cache_struct(size, associativity, block_size, dz, width) ==
    LET sets == number_of_sets(size, associativity, block_size, dz)
    IN  IF ~is_power_of_two(block_size) THEN NULL
        ELSE IF sets = 0 THEN NULL
        ELSE IF ~is_power_of_two(sets) THEN NULL
        ELSE [ptr |-> "cache",
              size |-> size,
              associativity |-> associativity,
              block_size |-> block_size,
              number_of_sets |-> sets,
              addr_info |-> determine_address_widths(block_size, sets, width),
              blocks |-> [i \in 0 .. sets - 1 |->
                             [j \in 0 .. associativity - 1 |-> new_block]],
              perf |-> zero_perf]

-----------------------------------------------------------------------------
(* cache.c: one reference *)

\* get_index_from_address that masks the address without shifting it
get_index_from_address_unshifted(address, cache) ==
    LowBits(address, cache.addr_info.index_width)

get_index_from_address(address, cache) ==
    LowBits(ShiftRight(address, cache.addr_info.offset_width),
            cache.addr_info.index_width)

get_tag_from_address(address, cache) ==
    ShiftRight(address, cache.addr_info.offset_width + cache.addr_info.index_width)

\* is_miss that compares the tags only
is_miss_ignores_valid(tag, index, cache) ==
    ~\E i \in 0 .. cache.associativity - 1 :
        cache.blocks[index][i].tag = tag

\* is_miss that takes a dirty block for a miss
is_miss_unless_clean(tag, index, cache) ==
    ~\E i \in 0 .. cache.associativity - 1 :
        /\ cache.blocks[index][i].tag = tag
        /\ cache.blocks[index][i].valid
        /\ ~cache.blocks[index][i].dirty

is_miss(tag, index, cache) ==
    ~\E i \in 0 .. cache.associativity - 1 :
        cache.blocks[index][i].tag = tag /\ cache.blocks[index][i].valid

\* handle_miss calls exit(1) unless the cache is direct mapped
handle_miss_exits(cache) == cache.associativity # 1

\* handle_miss that leaves the valid bit alone
handle_miss_keeps_valid(tag, index, write, cache) ==
    [cache EXCEPT !.blocks[index][0] =
        [@ EXCEPT !.dirty = write, !.tag = tag]]

\* handle_miss that marks the block valid but keeps the tag it held
handle_miss_keeps_tag(tag, index, write, cache) ==
    [cache EXCEPT !.blocks[index][0] =
        [@ EXCEPT !.valid = TRUE, !.dirty = write]]

handle_miss(tag, index, write, cache) ==
    [cache EXCEPT !.blocks[index][0] =
        [@ EXCEPT !.valid = TRUE, !.dirty = write, !.tag = tag]]

\* the set with every lru_value that was never written read as garbage[i]
read_lru(set, garbage) ==
    [i \in DOMAIN set |->
        IF set[i].lru_value = Undef
        THEN [set[i] EXCEPT !.lru_value = garbage[i]]
        ELSE set[i]]

SetMax(S) == CHOOSE x \in S : \A y \in S : y <= x

\* update_lru_info that ages the other blocks and never zeroes the touched one
update_lru_info_no_reset(tag, index, cache, garbage) ==
    LET set == read_lru(cache.blocks[index], garbage)
        matches == {i \in DOMAIN set : set[i].valid /\ set[i].tag = tag}
        mru == \E i \in matches : set[i].lru_value = 0
        block_index == IF matches = {} THEN 0 ELSE SetMax(matches)
    IN  IF mru THEN [cache EXCEPT !.blocks[index] = set]
        ELSE [cache EXCEPT !.blocks[index] =
                 [i \in DOMAIN set |->
                     [set[i] EXCEPT !.lru_value =
                         IF i = block_index THEN @ ELSE @ + 1]]]

\* update_lru_info that ages the blocks of every set
update_lru_info_ages_all(tag, index, cache, garbage) ==
    LET set == read_lru(cache.blocks[index], garbage)
        matches == {i \in DOMAIN set : set[i].valid /\ set[i].tag = tag}
        block_index == IF matches = {} THEN 0 ELSE SetMax(matches)
    IN  [cache EXCEPT !.blocks =
            [k \in DOMAIN cache.blocks |->
                [i \in DOMAIN cache.blocks[k] |->
                    IF k = index
                    THEN [set[i] EXCEPT !.lru_value =
                             IF i = block_index THEN 0 ELSE @ + 1]
                    ELSE [cache.blocks[k][i] EXCEPT !.lru_value = @ + 1]]]]

update_lru_info(tag, index, cache, garbage) ==
    LET set == read_lru(cache.blocks[index], garbage)
        matches == {i \in DOMAIN set : set[i].valid /\ set[i].tag = tag}
        mru == \E i \in matches : set[i].lru_value = 0
        block_index == IF matches = {} THEN 0 ELSE SetMax(matches)
    IN  IF mru THEN [cache EXCEPT !.blocks[index] = set]
        ELSE [cache EXCEPT !.blocks[index] =
                 [i \in DOMAIN set |->
                     [set[i] EXCEPT !.lru_value =
                         IF i = block_index THEN 0 ELSE @ + 1]]]

count_miss(type, perf) ==
    IF type = INSTRUCTION
        THEN [perf EXCEPT !.instruction_miss_count = @ + 1]
    ELSE IF type = DATA_READ
        THEN [perf EXCEPT !.data_read_miss_count = @ + 1]
    ELSE IF type = DATA_WRITE
        THEN [perf EXCEPT !.data_write_miss_count = @ + 1]
    ELSE perf

\* count_reference that counts downwards
count_reference_down(type, perf) ==
    IF type = INSTRUCTION
        THEN [perf EXCEPT !.instruction_reference_count = @ - 1]
    ELSE IF type = DATA_READ
        THEN [perf EXCEPT !.data_read_reference_count = @ - 1]
    ELSE IF type = DATA_WRITE
        THEN [perf EXCEPT !.data_write_reference_count = @ - 1]
    ELSE perf

count_reference(type, perf) ==
    IF type = INSTRUCTION
        THEN [perf EXCEPT !.instruction_reference_count = @ + 1]
    ELSE IF type = DATA_READ
        THEN [perf EXCEPT !.data_read_reference_count = @ + 1]
    ELSE IF type = DATA_WRITE
        THEN [perf EXCEPT !.data_write_reference_count = @ + 1]
    ELSE perf

\* do_reference when it returns (handle_miss did not exit)
do_reference(m, cache, garbage) ==
    LET tag == get_tag_from_address(m.address, cache)
        index == get_index_from_address(m.address, cache)
        miss == is_miss(tag, index, cache)
        filled == IF miss
                  THEN [handle_miss(tag, index, m.type = DATA_WRITE, cache)
                           EXCEPT !.perf = count_miss(m.type, @)]
                  ELSE cache
        touched == update_lru_info(tag, index, filled, garbage)
    IN  [touched EXCEPT !.perf = count_reference(m.type, @)]

-----------------------------------------------------------------------------
(* Inputs *)

\* the largest power of two an int argument can hold
Big == 2 ^ 30

\* <<cache_size, cache_associativity, cache_block_size>>
ArgTriples ==
    ({0, 1, 2, 3, 4} \X {0, 1, 2, 3} \X {0, 1, 2, 3, 4})
    \cup {<<1024, 1, 32>>, <<1024, 2, 32>>, <<0 - 1, 1, 1>>}
    \cup {<<Big, a, Big>> : a \in {1, 2, 4, 5}}

Addresses == (0 .. MaxAddr) \cup {32}

\* a type field that was never assigned holds anything
TypeValues == REFERENCE_TYPE \cup {GarbageType}

\* a struct memory_reference that was never assigned
Uninitialised == [address : Addresses, type : TypeValues]

\* mr outside the loop body
NoRef == [address |-> 0, type |-> GarbageType]

\* a NULL pointer is dereferenced: the process is killed, or the access
\* goes through and the program carries on with what it read
NullDeref == {"trap", "survive"}

IsNull(p) == p.ptr = "NULL"

FILE(at) == [ptr |-> "FILE", at |-> at]

feof(f) == f.at = "end"

-----------------------------------------------------------------------------
(* cachesim.c: main *)

\* the state in which main starts, its arguments drawn from `triples`
InitOver(triples) ==
    /\ pc = "check_args"
    /\ argc \in {4, 5}
    /\ args \in IF argc = 5 THEN triples ELSE {<<0, 0, 0>>}
    /\ readable \in BOOLEAN
    /\ retval = 0
    /\ c = NULL
    /\ trace_file = NULL
    /\ mr = NoRef
    /\ printed = << >>
    /\ exit_code = 0
    /\ calls = 0
    /\ last = << >>
    /\ seen = {}
    /\ line = << >>
    /\ error = ""
    /\ twin = NULL

Init == InitOver(ArgTriples)

\* the argument checks of main
bad_arguments(cache_size, cache_associativity, cache_block_size) ==
    \/ cache_size <= 0
    \/ cache_associativity <= 0
    \/ cache_block_size <= 0
    \/ cache_size < cache_block_size
    \/ cache_size < cache_associativity

CheckArgs ==
    /\ pc = "check_args"
    /\ IF argc # 5
       THEN /\ pc' = "returned"
            /\ exit_code' = 0 - 1
            /\ retval' = retval
       ELSE IF bad_arguments(args[1], args[2], args[3])
       THEN /\ pc' = "returned"
            /\ exit_code' = 0 - 1
            /\ retval' = 0 - 1
       ELSE /\ pc' = "create"
            /\ exit_code' = exit_code
            /\ retval' = retval
    /\ UNCHANGED <<argc, args, readable, c, trace_file, mr, printed, calls,
                   last, seen, line, error, twin>>

\* c = create_cache_struct(...) on a host whose pointer width is in `widths`
CreateCacheCall(widths) ==
    /\ pc = "create"
    /\ \/ /\ divides_by_zero(args[2], args[3])
          /\ pc' = "crashed"
          /\ c' = c
          /\ error' = error
       \/ /\ \E width \in widths :
                c' = create_cache_struct(args[1], args[2], args[3], 0, width)
          /\ error' = create_cache_error(args[1], args[2], args[3], 0)
          /\ pc' = "open"
    /\ UNCHANGED <<argc, args, readable, retval, trace_file, mr, printed,
                   exit_code, calls, last, seen, line>>

CreateCacheOn(widths) == CreateCacheCall(widths) /\ twin' = twin

CreateCache == CreateCacheOn(PointerBits)

CreateCacheOnAnyHost == CreateCacheOn(HostPointerBits)

open_trace_file(ok) == IF ok THEN FILE("start") ELSE NULL

OpenTraceFile ==
    /\ pc = "open"
    /\ trace_file' = open_trace_file(readable)
    /\ pc' = "is_next"
    /\ UNCHANGED <<argc, args, readable, retval, c, mr, printed, exit_code,
                   calls, last, seen, line, error, twin>>

\* while(is_next_reference())
IsNextReference ==
    /\ pc = "is_next"
    /\ IF IsNull(trace_file)
       THEN \E o \in NullDeref :
               IF o = "trap" THEN pc' = "crashed"
               ELSE pc' \in {"get_next", "print"}
       ELSE pc' = IF ~feof(trace_file) THEN "get_next" ELSE "print"
    /\ UNCHANGED <<argc, args, readable, retval, c, trace_file, mr, printed,
                   exit_code, calls, last, seen, line, error, twin>>

\* fscanf(trace_file, "%x %c\n", ...) and the switch on the type character.
\* The stream stands at "start" (nothing read yet), at "token" (a token
\* follows), at "bad" (a token that is no hexadecimal number follows; it is
\* never consumed) or at "end" (the end-of-file indicator is set).  The
\* trailing "\n" of the format skips white space, so reading the last line
\* sets the end-of-file indicator.

\* the characters of the three reference types
TypeCharacters == {"I", "R", "W"}

\* a character that is none of them
UnknownCharacter == "X"

\* the switch on reference_type
reference_type(ch) ==
    IF ch = "I" THEN INSTRUCTION
    ELSE IF ch = "R" THEN DATA_READ
    ELSE DATA_WRITE

well_formed_line(a, ch) == [address |-> a, type |-> reference_type(ch)]

\* get_next_reference over a trace whose lines are of the kinds in `lines`
\* and whose well-formed lines carry the type characters in `types` and the
\* addresses in `addresses`
get_next_reference(lines, types, addresses) ==
    \/ \* the stream is NULL: feof(NULL), fscanf(NULL, ...)
       /\ IsNull(trace_file)
       /\ \E o \in NullDeref :
             IF o = "trap" THEN pc' = "crashed" /\ mr' = mr
             ELSE pc' = "do_reference" /\ mr' \in Uninitialised
       /\ trace_file' = trace_file
       /\ line' = << >>
    \/ \* an empty file: fscanf returns EOF, retval is returned unassigned
       /\ ~IsNull(trace_file) /\ trace_file.at = "start"
       /\ pc' = "do_reference"
       /\ mr' \in Uninitialised
       /\ trace_file' = FILE("end")
       /\ line' = << >>
    \/ \* a line "address I|R|W"
       /\ ~IsNull(trace_file) /\ trace_file.at \in {"start", "token"}
       /\ pc' = "do_reference"
       /\ \E a \in addresses, ch \in types :
             /\ mr' = well_formed_line(a, ch)
             /\ line' = <<[address |-> a, type |-> ch]>>
       /\ \E at \in {"token", "end"} : trace_file' = FILE(at)
    \/ \* a line "address X": the address is assigned, the type is not
       /\ "unknown" \in lines
       /\ ~IsNull(trace_file) /\ trace_file.at \in {"start", "token"}
       /\ pc' = "do_reference"
       /\ \E a \in Addresses, t \in TypeValues :
             /\ mr' = [address |-> a, type |-> t]
             /\ line' = <<[address |-> a, type |-> UnknownCharacter]>>
       /\ \E at \in {"token", "end"} : trace_file' = FILE(at)
    \/ \* a token that is no hexadecimal number: fscanf returns 0 and
       \* consumes nothing, retval is returned unassigned
       /\ "unparsable" \in lines
       /\ ~IsNull(trace_file) /\ trace_file.at \in {"start", "token", "bad"}
       /\ pc' = "do_reference"
       /\ mr' \in Uninitialised
       /\ trace_file' = FILE("bad")
       /\ line' = << >>

\* mr = get_next_reference(); over any trace
GetNextReference ==
    /\ pc = "get_next"
    /\ calls < MaxRefs
    /\ get_next_reference({"unknown", "unparsable"}, TypeCharacters, Addresses)
    /\ UNCHANGED <<argc, args, readable, retval, c, printed, exit_code,
                   calls, last, seen, error, twin>>

\* mr = get_next_reference(); over a trace of well-formed lines
GetNextWellFormed ==
    /\ pc = "get_next"
    /\ calls < MaxColdRefs
    /\ get_next_reference({}, TypeCharacters, Addresses)
    /\ UNCHANGED <<argc, args, readable, retval, c, printed, exit_code,
                   calls, last, seen, error, twin>>

\* the blocks of a set whose lru_value was never written
unwritten(set) == {i \in DOMAIN set : set[i].lru_value = Undef}

\* what a completed do_reference(m, cache) did
outcome(m, cache, before, known) ==
    LET tag == get_tag_from_address(m.address, cache)
        index == get_index_from_address(m.address, cache)
    IN  [address |-> m.address,
         index |-> index,
         miss |-> is_miss(tag, index, cache),
         repeat |-> before # << >> /\ before[1].address = m.address,
         cold |-> ~\E p \in known : p[1] = index,
         same |-> <<index, m.address>> \in known]

remember(m, cache, known) ==
    LET index == get_index_from_address(m.address, cache)
    IN  {p \in known : p[1] # index} \cup {<<index, m.address>>}

\* do_reference(mr, c);
DoReferenceCall ==
    /\ pc = "do_reference"
    /\ calls' = IF calls < MaxColdRefs THEN calls + 1 ELSE calls
    /\ IF IsNull(c)
       THEN /\ \E o \in NullDeref :
                  pc' = IF o = "trap" THEN "crashed" ELSE "is_next"
            /\ mr' = NoRef
            /\ UNCHANGED <<c, exit_code, last, seen>>
       ELSE LET tag == get_tag_from_address(mr.address, c)
                index == get_index_from_address(mr.address, c)
            IN  IF is_miss(tag, index, c) /\ handle_miss_exits(c)
                THEN /\ pc' = "exited"
                     /\ exit_code' = 1
                     /\ UNCHANGED <<c, mr, last, seen>>
                ELSE /\ \E garbage \in [unwritten(c.blocks[index]) -> 0 .. MaxGarbage] :
                           c' = do_reference(mr, c, garbage)
                     /\ pc' = "is_next"
                     /\ mr' = NoRef
                     /\ last' = <<outcome(mr, c, last, seen)>>
                     /\ seen' = remember(mr, c, seen)
                     /\ exit_code' = exit_code
    /\ line' = << >>
    /\ UNCHANGED <<argc, args, readable, retval, trace_file, printed, error>>

DoReference == DoReferenceCall /\ twin' = twin

references(perf) ==
    perf.instruction_reference_count + perf.data_read_reference_count
        + perf.data_write_reference_count

misses(perf) ==
    perf.instruction_miss_count + perf.data_read_miss_count
        + perf.data_write_miss_count

statistics(perf) ==
    [references |-> references(perf), hits |-> references(perf) - misses(perf)]

\* "Print statistics."
PrintStats ==
    /\ pc = "print"
    /\ IF IsNull(c)
       THEN \E o \in NullDeref :
               IF o = "trap" THEN pc' = "crashed" /\ printed' = printed
               ELSE /\ pc' = "free"
                    /\ \E r \in 0 .. 1, h \in 0 .. 1 :
                          printed' = <<[references |-> r, hits |-> h]>>
       ELSE /\ pc' = "free"
            /\ printed' = <<statistics(c.perf)>>
    /\ UNCHANGED <<argc, args, readable, retval, c, trace_file, mr, exit_code,
                   calls, last, seen, line, error, twin>>

\* free_cache_struct(c); return retval;
FreeAndReturn ==
    /\ pc = "free"
    /\ IF IsNull(c)
       THEN \E o \in NullDeref :
               IF o = "trap" THEN pc' = "crashed" /\ exit_code' = exit_code
               ELSE pc' = "returned" /\ exit_code' = retval
       ELSE pc' = "returned" /\ exit_code' = retval
    /\ UNCHANGED <<argc, args, readable, retval, c, trace_file, mr, printed,
                   calls, last, seen, line, error, twin>>

Next ==
    \/ CheckArgs
    \/ CreateCache
    \/ OpenTraceFile
    \/ IsNextReference
    \/ GetNextReference
    \/ DoReference
    \/ PrintStats
    \/ FreeAndReturn

Spec == Init /\ [][Next]_vars

\* the runs over a readable trace file that holds well-formed lines only
NextCold ==
    \/ CheckArgs
    \/ CreateCache
    \/ OpenTraceFile
    \/ IsNextReference
    \/ GetNextWellFormed
    \/ DoReference
    \/ PrintStats
    \/ FreeAndReturn

\* the geometries of the cold-start scenarios, and one that is rejected
ColdTriples == {<<4, 1, 1>>, <<1024, 1, 32>>, <<3, 1, 1>>}

InitCold == Init /\ argc = 5 /\ args \in ColdTriples /\ readable

SpecCold == InitCold /\ [][NextCold]_vars

\* mr = get_next_reference(); over a finite trace: at most MaxRefs lines,
\* then the end of the file or a token that cannot be parsed.  The counters
\* are followed up to MaxColdRefs references.
GetNextInFiniteTrace ==
    /\ pc = "get_next"
    /\ trace_file.at = "bad" \/ calls < MaxRefs
    /\ references(c.perf) < MaxRefs
    /\ get_next_reference({"unknown", "unparsable"}, TypeCharacters, Addresses)
    /\ calls + 1 >= MaxRefs => trace_file'.at # "token"
    /\ UNCHANGED <<argc, args, readable, retval, c, printed, exit_code,
                   calls, last, seen, error, twin>>

NextLive ==
    \/ CheckArgs
    \/ CreateCache
    \/ OpenTraceFile
    \/ IsNextReference
    \/ GetNextInFiniteTrace
    \/ DoReference
    \/ PrintStats
    \/ FreeAndReturn

\* accepted direct-mapped geometries
LiveTriples == {<<2, 1, 1>>}

InitLive == Init /\ argc = 5 /\ args \in LiveTriples /\ readable

\* main is a sequential program: it always takes its next step
SpecLive == InitLive /\ [][NextLive]_vars /\ WF_vars(NextLive)

\* addresses across the 31 bits the model's integers hold
WideAddresses ==
    {0, 1, 2, 3, 5, 31, 32, 33, 1023, 1024, 1025, 65535, 65536, 65539,
     Big - 1, Big, Big + 37, (Big - 1) + Big}

\* the largest number of sets of a cache in the runs of SpecWidths
MaxSets == 64

\* geometries from one byte to the largest an int argument can hold, of at
\* most MaxSets sets
WidthTriples ==
    {t \in {1, 2, 3, 4, 8, 64, 1024, 2 ^ 20, 2 ^ 22, Big, (Big - 1) + Big}
              \X {1, 2, 3, 4}
              \X {1, 2, 4, 6, 32, 2 ^ 16, 2 ^ 20, Big} :
        t[1] \div t[3] <= MaxSets}
    \cup {<<Big, 5, Big>>}

\* mr = get_next_reference(); over a trace of one well-formed line
GetNextAnyAddress ==
    /\ pc = "get_next"
    /\ calls < 1
    /\ trace_file.at = "start"
    /\ get_next_reference({}, TypeCharacters, WideAddresses)
    /\ trace_file'.at = "end" /\ line' # << >>
    /\ UNCHANGED <<argc, args, readable, retval, c, printed, exit_code,
                   calls, last, seen, error, twin>>

\* the runs over every geometry and host, with a trace of one reference
NextWidths ==
    \/ CheckArgs
    \/ CreateCacheOnAnyHost
    \/ OpenTraceFile
    \/ IsNextReference
    \/ GetNextAnyAddress
    \/ DoReference
    \/ PrintStats
    \/ FreeAndReturn

InitWidths == InitOver(WidthTriples) /\ argc = 5 /\ readable

SpecWidths == InitWidths /\ [][NextWidths]_vars

\* two runs of main on the same arguments: both create the same cache
CreateCacheInBothRuns == CreateCacheCall(PointerBits) /\ twin' = c'

\* addresses of two blocks, the first with two bytes, in the caches of TwinTriples
TwinAddresses == {0, 1, 2}

\* mr = get_next_reference(); over a trace of one or more well-formed lines
GetNextInBothRuns ==
    /\ pc = "get_next"
    /\ calls < MaxRefs
    /\ get_next_reference({}, TypeCharacters, TwinAddresses)
    /\ line' # << >>
    /\ UNCHANGED <<argc, args, readable, retval, c, printed, exit_code,
                   calls, last, seen, error, twin>>

\* do_reference(mr, c) in the one run and, in the second run, do_reference
\* for the same address with any reference type, on a cache whose
\* lru_value fields hold any values of their own
DoReferenceInBothRuns ==
    /\ DoReferenceCall
    /\ IF IsNull(twin)
       THEN twin' = twin
       ELSE LET tag == get_tag_from_address(mr.address, twin)
                index == get_index_from_address(mr.address, twin)
            IN  IF is_miss(tag, index, twin) /\ handle_miss_exits(twin)
                THEN twin' = twin
                ELSE \E type \in REFERENCE_TYPE,
                        garbage \in [unwritten(twin.blocks[index]) -> 0 .. MaxGarbage] :
                        twin' = do_reference([address |-> mr.address, type |-> type],
                                             twin, garbage)

NextTwin ==
    \/ CheckArgs
    \/ CreateCacheInBothRuns
    \/ OpenTraceFile
    \/ IsNextReference
    \/ GetNextInBothRuns
    \/ DoReferenceInBothRuns
    \/ PrintStats
    \/ FreeAndReturn

\* direct-mapped geometries of one and two sets, and a two-way one
TwinTriples == {<<2, 1, 2>>, <<2, 1, 1>>, <<1024, 2, 32>>}

InitTwin == InitOver(TwinTriples) /\ argc = 5 /\ readable

SpecTwin == InitTwin /\ [][NextTwin]_vars

-----------------------------------------------------------------------------
(* Properties *)

\* the tag, the set and the set's blocks that the pending reference mr selects
MrTag == get_tag_from_address(mr.address, c)
MrIndex == get_index_from_address(mr.address, c)

\* the valid flag, tag and dirty flag of a block
Content(b) == <<b.valid, b.tag, b.dirty>>

\* n is a power of two, as a number
IsPowerOfTwo(n) == \E k \in 0 .. 30 : n = 2 ^ k

\* the integer quotient size / (associativity * block_size), as a number:
\* for positive integers floor(floor(s / b) / a) = floor(s / (a * b))
Quotient(size, associativity, block_size) ==
    (size \div block_size) \div associativity

ValidGeometry(t) ==
    /\ IsPowerOfTwo(t[3])
    /\ Quotient(t[1], t[2], t[3]) >= 1
    /\ IsPowerOfTwo(Quotient(t[1], t[2], t[3]))

\* C1: when create_cache_struct has returned, it has returned a cache if and
\* only if block_size is a power of two and the integer quotient
\* size / (associativity * block_size) is at least 1 and a power of two.
C1_CreateIffValidGeometry ==
    pc = "open" => (~IsNull(c) <=> ValidGeometry(args))

\* C2: on a geometry that create_cache_struct rejected, do_reference is
\* never called.
C2_NoReferenceOnRejectedGeometry ==
    IsNull(c) => calls = 0

\* C3: once create_cache_struct has succeeded (on a valid geometry), no
\* do_reference call ends the process.
C3_ReferenceNeverAborts ==
    (~IsNull(c) /\ ValidGeometry(args)) => pc # "exited"

\* the block with the maximum recency value, the lowest index among equals
LruVictim(set) ==
    CHOOSE i \in DOMAIN set :
        \A j \in DOMAIN set :
            /\ set[j].lru_value <= set[i].lru_value
            /\ set[j].lru_value = set[i].lru_value => i <= j

\* C4: in a cache of associativity N > 1, a reference that misses installs
\* its tag in one block of its set and leaves the other N-1 blocks' valid
\* flag, tag and dirty flag alone; when the set is full the block it
\* replaces is the one with the maximum recency value, lowest index first
\* (so the (N+1)-th of N+1 distinct tags evicts the first-referenced one).
C4_LruEviction ==
    [][(/\ pc = "do_reference"
        /\ ~IsNull(c)
        /\ ValidGeometry(args)
        /\ c.associativity > 1
        /\ is_miss(MrTag, MrIndex, c))
       => \E i \in DOMAIN c.blocks[MrIndex] :
             /\ c'.blocks[MrIndex][i].valid
             /\ c'.blocks[MrIndex][i].tag = MrTag
             /\ \A j \in DOMAIN c.blocks[MrIndex] \ {i} :
                   Content(c'.blocks[MrIndex][j]) = Content(c.blocks[MrIndex][j])
             /\ (\A j \in DOMAIN c.blocks[MrIndex] : c.blocks[MrIndex][j].valid)
                   => i = LruVictim(c.blocks[MrIndex])]_vars

\* the three miss counters
MissCounters(perf) ==
    <<perf.instruction_miss_count, perf.data_read_miss_count,
      perf.data_write_miss_count>>

\* the three reference counters
ReferenceCounters(perf) ==
    <<perf.instruction_reference_count, perf.data_read_reference_count,
      perf.data_write_reference_count>>

\* the valid flag, tag and dirty flag of every block
Contents(cache) ==
    [i \in DOMAIN cache.blocks |->
        [j \in DOMAIN cache.blocks[i] |-> Content(cache.blocks[i][j])]]

\* C5: a do_reference call for the address of the call right before it
\* returns, is a hit, increments no miss counter and installs no block.
C5_RepeatedAddressHits ==
    [][(/\ pc = "do_reference"
        /\ ~IsNull(c)
        /\ last # << >>
        /\ last[1].address = mr.address)
       => /\ pc' = "is_next"
          /\ ~last'[1].miss
          /\ MissCounters(c'.perf) = MissCounters(c.perf)
          /\ Contents(c') = Contents(c)]_vars

\* a second reference to one address was processed right after the first,
\* in a cache that had taken misses
C5_Witness ==
    /\ ~IsNull(c)
    /\ last # << >>
    /\ last[1].repeat
    /\ ~last[1].miss
    /\ misses(c.perf) >= 1

\* C6: every do_reference call that returns increments exactly one of the
\* three reference counters, by 1, and at most one miss counter, by 1, and
\* then the one of the same kind.
C6_OneCounterPerReference ==
    [][(pc = "do_reference" /\ ~IsNull(c) /\ pc' = "is_next")
       => LET r == [k \in 1 .. 3 |->
                       ReferenceCounters(c'.perf)[k] - ReferenceCounters(c.perf)[k]]
              m == [k \in 1 .. 3 |->
                       MissCounters(c'.perf)[k] - MissCounters(c.perf)[k]]
          IN  /\ \E k \in 1 .. 3 :
                    r[k] = 1 /\ \A j \in (1 .. 3) \ {k} : r[j] = 0
              /\ \A k \in 1 .. 3 : m[k] \in {0, 1} /\ m[k] <= r[k]]_vars

\* C7: in every set that holds a valid block, exactly one block has
\* lru_value 0.
C7_OneMostRecentlyUsed ==
    ~IsNull(c) =>
        \A i \in DOMAIN c.blocks :
            (\E j \in DOMAIN c.blocks[i] : c.blocks[i][j].valid)
            => Cardinality({j \in DOMAIN c.blocks[i] :
                               c.blocks[i][j].lru_value = 0}) = 1

\* two sets hold a valid block after a reference replaced a block
C7_Witness ==
    /\ ~IsNull(c)
    /\ Cardinality({i \in DOMAIN c.blocks : c.blocks[i][0].valid}) >= 2
    /\ \E i \in DOMAIN c.blocks :
          c.blocks[i][0].valid /\ c.blocks[i][0].tag # 0
    /\ last # << >> /\ last[1].miss /\ ~last[1].cold

\* C8: no set holds two valid blocks with the same tag.
C8_NoDuplicateTag ==
    ~IsNull(c) =>
        \A i \in DOMAIN c.blocks :
            \A j, k \in DOMAIN c.blocks[i] :
                (/\ j # k
                 /\ c.blocks[i][j].valid
                 /\ c.blocks[i][k].valid)
                => c.blocks[i][j].tag # c.blocks[i][k].tag

\* a miss has just replaced the valid block of a set by a block with another tag
C8_Witness ==
    /\ ~IsNull(c)
    /\ last # << >>
    /\ last[1].miss
    /\ ~last[1].cold
    /\ c.blocks[last[1].index][0].valid

\* the references fed were 0, 1, 2, 3 (each once, in some order, 0 among
\* them) and then 0, to the cache of size 4 and block size 1
FedFourSets ==
    /\ c.size = 4 /\ c.block_size = 1
    /\ calls = 5
    /\ references(c.perf) = 5
    /\ seen = {<<0, 0>>, <<1, 1>>, <<2, 2>>, <<3, 3>>}
    /\ last[1].address = 0
    /\ last[1].same

\* the references fed were 0x00 and 0x20 and then 0x00, to the cache of
\* size 1024 and block size 32
FedTwoBlocks ==
    /\ c.size = 1024 /\ c.block_size = 32
    /\ calls = 3
    /\ references(c.perf) = 3
    /\ seen = {<<0, 0>>, <<1, 32>>}
    /\ last[1].address = 0
    /\ last[1].same

\* C9: in a direct-mapped cache the first reference to a set misses, and a
\* reference to the address that the latest reference to its set had hits;
\* 0,1,2,3,0 on size 4 / block size 1 gives four misses and a hit, and
\* 0x00,0x20,0x00 on size 1024 / block size 32 gives two misses and a hit.
C9_ColdDirectMapped ==
    (~IsNull(c) /\ c.associativity = 1 /\ last # << >>) =>
        /\ last[1].cold => last[1].miss
        /\ last[1].same => ~last[1].miss
        /\ FedFourSets => misses(c.perf) = 4 /\ ~last[1].miss
        /\ FedTwoBlocks => misses(c.perf) = 2 /\ ~last[1].miss

\* 0,1,2,3,0 has been processed by the cache of size 4 and block size 1
C9_Witness ==
    /\ ~IsNull(c) /\ c.associativity = 1 /\ last # << >>
    /\ FedFourSets
    /\ misses(c.perf) = 4

\* main has ended
Ended == pc \in {"returned", "exited", "crashed"}

\* create_cache_struct returned NULL
Rejected ==
    /\ pc \notin {"check_args", "create"}
    /\ ~divides_by_zero(args[2], args[3])
    /\ IsNull(c)

\* open_trace_file was called and returned false
Unopened ==
    /\ pc \notin {"check_args", "create", "open"}
    /\ ~divides_by_zero(args[2], args[3])
    /\ ~readable

\* the run is one that must not succeed
Failure ==
    /\ argc = 5
    /\ \/ bad_arguments(args[1], args[2], args[3])
       \/ Rejected
       \/ Unopened

\* C10: a run with an argument that is not positive, a rejected geometry
\* or a trace file that cannot be opened ends with a non-zero exit code,
\* and never prints the statistics.
C10_FailureExitsNonZero ==
    Failure =>
        /\ printed = << >>
        /\ Ended => pc \in {"returned", "exited"} /\ exit_code # 0

\* the reference that a line "address I|R|W" of the trace file holds
Decoded(l) ==
    [address |-> l.address,
     type |-> CASE l.type = "I" -> INSTRUCTION
                [] l.type = "R" -> DATA_READ
                [] OTHER -> DATA_WRITE]

\* C11: every do_reference call is handed the reference of the trace line
\* read just before it (so the references are processed one call each and in
\* trace order, none invented), and every line read is handed on before the
\* next is read (none dropped).
C11_ReferencesInTraceOrder ==
    /\ pc = "do_reference" =>
          /\ line # << >>
          /\ line[1].type \in TypeCharacters
          /\ mr = Decoded(line[1])
    /\ pc # "do_reference" => line = << >>

\* C12: do_reference is only ever called with a reference that was parsed
\* from a well-formed line: a line was read, its type character is I, R or W
\* and the type handed over is INSTRUCTION, DATA_READ or DATA_WRITE.
C12_OnlyWellFormedReferences ==
    [][pc = "do_reference"
       => /\ line # << >>
          /\ line[1].type \in TypeCharacters
          /\ mr.type \in REFERENCE_TYPE]_vars

\* the counters have reached the number of references the model follows
CountersAtBound == ~IsNull(c) /\ references(c.perf) >= MaxRefs

\* C13: on a finite trace file the loop of main ends: the run reaches the
\* end of the input, prints the statistics and returns (or the counters
\* reach the number of references the model follows).
C13_LoopTerminates ==
    <>(CountersAtBound \/ (pc = "returned" /\ printed # << >>))

\* the pending reference was parsed from a line "address I|R|W"
MrWellFormed == line # << >> /\ line[1].type \in TypeCharacters

\* C14: a valid block is dirty exactly when it was written since it was
\* filled.  Step by step: a reference that fills a block leaves it dirty
\* exactly when the reference is a DATA_WRITE; a reference that hits a block
\* leaves it dirty exactly when it was dirty or the reference is a
\* DATA_WRITE; the blocks of the other sets keep their dirty flag.
C14_DirtyIffWritten ==
    [][(/\ pc = "do_reference"
        /\ ~IsNull(c)
        /\ MrWellFormed
        /\ pc' = "is_next")
       => /\ \A j \in DOMAIN c.blocks[MrIndex] :
                (c'.blocks[MrIndex][j].valid /\ c'.blocks[MrIndex][j].tag = MrTag)
                => c'.blocks[MrIndex][j].dirty =
                      \/ mr.type = DATA_WRITE
                      \/ /\ ~is_miss(MrTag, MrIndex, c)
                         /\ c.blocks[MrIndex][j].dirty
          /\ \A i \in DOMAIN c.blocks \ {MrIndex} :
                \A j \in DOMAIN c.blocks[i] :
                    c'.blocks[i][j].dirty = c.blocks[i][j].dirty]_vars

\* C15: in every cache that create_cache_struct returned, offset_width is
\* log2(block_size), index_width is log2(number_of_sets), offset_width +
\* index_width is at most address_width and tag_width is what is left of
\* address_width, not less than 0.
C15_AddressWidths ==
    ~IsNull(c) =>
        /\ 2 ^ c.addr_info.offset_width = c.block_size
        /\ 2 ^ c.addr_info.index_width = c.number_of_sets
        /\ c.addr_info.offset_width + c.addr_info.index_width
              <= c.addr_info.address_width
        /\ c.addr_info.tag_width >= 0
        /\ c.addr_info.offset_width + c.addr_info.index_width
              + c.addr_info.tag_width = c.addr_info.address_width

\* a cache with offset bits and index bits was created on a 32-bit host
C15_Witness ==
    /\ ~IsNull(c)
    /\ pc = "open"
    /\ c.addr_info.address_width = 32
    /\ c.addr_info.offset_width >= 5
    /\ c.addr_info.index_width >= 5

\* an address masked to `width` bits (an address has at most 31 bits here)
Masked(address, width) ==
    IF width >= IntBits - 1 THEN address ELSE address % (2 ^ width)

\* C16: the tag and the index computed for an address, and the low
\* offset_width bits of the address, put back in their places give the
\* address (masked to address_width bits).
C16_AddressRoundTrip ==
    (pc = "do_reference" /\ ~IsNull(c)) =>
        LET o == c.addr_info.offset_width
            i == c.addr_info.index_width
            offset == mr.address % (2 ^ o)
        IN  /\ MrIndex < 2 ^ i
            /\ MrTag * (2 ^ (o + i)) + MrIndex * (2 ^ o) + offset
                  = Masked(mr.address, c.addr_info.address_width)

\* an address with a non-zero tag, index and offset is about to be processed
C16_Witness ==
    /\ pc = "do_reference"
    /\ ~IsNull(c)
    /\ c.addr_info.offset_width > 0
    /\ c.addr_info.index_width > 0
    /\ MrTag > 0
    /\ MrIndex > 0
    /\ mr.address % c.block_size > 0

\* C17: when a run on a cache that was created and a trace file that was
\* opened prints the statistics, references > 0 and 0 <= hits <= references,
\* so that the ratio hits / references is a value in [0, 1].
C17_HitRatioInUnitInterval ==
    (printed # << >> /\ ~IsNull(c) /\ readable) =>
        /\ printed[1].references > 0
        /\ 0 <= printed[1].hits
        /\ printed[1].hits <= printed[1].references

\* the six performance counters
Counters(perf) == ReferenceCounters(perf) \o MissCounters(perf)

\* C18: the six counters are 0 when create_cache_struct returns the cache,
\* and no step ever decreases one of them.
C18_CountersStartAtZeroAndGrow ==
    /\ []((pc = "open" /\ ~IsNull(c)) =>
            \A k \in 1 .. 6 : Counters(c.perf)[k] = 0)
    /\ [][(~IsNull(c) /\ ~IsNull(c'))
           => \A k \in 1 .. 6 : Counters(c'.perf)[k] >= Counters(c.perf)[k]]_vars

\* references of all three types were counted, two of them as misses
C18_Witness ==
    /\ ~IsNull(c)
    /\ calls >= 3
    /\ \A k \in 1 .. 3 : ReferenceCounters(c.perf)[k] >= 1
    /\ misses(c.perf) = 2

\* C19: create_cache_struct returns NULL exactly when it reports an error,
\* and the error is the invalid block size when block_size is not a power of
\* two, the zero sets when block_size is a power of two and the computed
\* number_of_sets is 0, and the invalid set count when block_size is a power
\* of two and number_of_sets is neither 0 nor a power of two.
C19_RejectionClassified ==
    pc = "open" =>
        LET sets == number_of_sets(args[1], args[2], args[3], 0)
        IN  /\ IsNull(c) <=> error # ""
            /\ error \in {"", InvalidBlockSize, ZeroSets, InvalidSetCount}
            /\ error = InvalidBlockSize <=> ~IsPowerOfTwo(args[3])
            /\ error = ZeroSets <=> (IsPowerOfTwo(args[3]) /\ sets = 0)
            /\ error = InvalidSetCount <=>
                  (IsPowerOfTwo(args[3]) /\ sets # 0 /\ ~IsPowerOfTwo(sets))

\* a geometry of 0 sets was rejected
C19_Witness ==
    /\ pc = "open"
    /\ IsNull(c)
    /\ number_of_sets(args[1], args[2], args[3], 0) = 0
    /\ error = ZeroSets

\* C20: a do_reference call that misses leaves, in the set of its index,
\* a valid block with its tag whose dirty flag tells whether the reference
\* is a DATA_WRITE; the other blocks of the set keep their valid flag, tag
\* and dirty flag; and the miss counter of the reference's type is 1 higher.
C20_MissInstallsBlock ==
    [][(/\ pc = "do_reference"
        /\ ~IsNull(c)
        /\ ValidGeometry(args)
        /\ MrWellFormed
        /\ is_miss(MrTag, MrIndex, c))
       => /\ pc' = "is_next"
          /\ \E j \in DOMAIN c.blocks[MrIndex] :
                /\ Content(c'.blocks[MrIndex][j])
                      = <<TRUE, MrTag, mr.type = DATA_WRITE>>
                /\ \A k \in DOMAIN c.blocks[MrIndex] \ {j} :
                      Content(c'.blocks[MrIndex][k]) = Content(c.blocks[MrIndex][k])
          /\ MissCounters(c'.perf)[mr.type + 1]
                = MissCounters(c.perf)[mr.type + 1] + 1]_vars

\* the ideal direct-mapped cache: the set and the tag of an address, as
\* numbers, for a cache of `sets` sets of one block of `block_size` bytes
IdealIndex(address, cache) ==
    (address \div cache.block_size) % cache.number_of_sets
IdealTag(address, cache) ==
    (address \div cache.block_size) \div cache.number_of_sets

\* the ideal cache remembers the last tag of each set: a reference hits
\* when the latest reference to its set had its tag
IdealHit(address, cache, known) ==
    \E p \in known :
        /\ IdealIndex(p[2], cache) = IdealIndex(address, cache)
        /\ IdealTag(p[2], cache) = IdealTag(address, cache)

\* C21: in a direct-mapped cache every do_reference call hits exactly when
\* the ideal direct-mapped cache, which remembers the last tag of each set,
\* hits.
C21_RefinesIdealDirectMapped ==
    [][(/\ pc = "do_reference"
        /\ ~IsNull(c)
        /\ c.associativity = 1)
       => /\ pc' = "is_next"
          /\ last'[1].miss = ~IdealHit(mr.address, c, seen)
          /\ is_miss(MrTag, MrIndex, c) = ~IdealHit(mr.address, c, seen)]_vars

\* a reference hit the block that another address of the same tag filled
C21_Witness ==
    /\ ~IsNull(c)
    /\ c.associativity = 1
    /\ calls >= 2
    /\ last # << >>
    /\ ~last[1].miss
    /\ ~last[1].same
    /\ c.block_size > 1

\* the bit-width of a reference address (unsigned int address)
ReferenceAddressBits == IntBits

\* C22: the address_width that create_cache_struct records is 32, the width
\* of a reference address, on every host, and tag_width is what is left of
\* those 32 bits.
C22_AddressWidthIsThirtyTwo ==
    ~IsNull(c) =>
        /\ c.addr_info.address_width = ReferenceAddressBits
        /\ c.addr_info.tag_width =
              ReferenceAddressBits - c.addr_info.offset_width
                  - c.addr_info.index_width

\* the number_of_sets that create_cache_struct computed
ComputedSets == number_of_sets(args[1], args[2], args[3], 0)

\* C23: create_cache_struct never divides by zero, the number_of_sets it
\* computes is the integer quotient size / (associativity * block_size),
\* and so the sets of a cache it returns fit in size.
C23_SetsIsTrueQuotient ==
    /\ pc = "create" => ~divides_by_zero(args[2], args[3])
    /\ (pc = "open" /\ is_power_of_two(args[3])) =>
          ComputedSets = Quotient(args[1], args[2], args[3])
    /\ ~IsNull(c) =>
          c.number_of_sets <= Quotient(c.size, c.associativity, c.block_size)

\* the geometry fields and the address widths of a cache
Geometry(cache) ==
    <<cache.size, cache.associativity, cache.block_size, cache.number_of_sets,
      cache.addr_info>>

\* C24: a do_reference call leaves every block of every set other than the
\* one its address selects as it was (valid, dirty, tag and lru_value), and
\* leaves the geometry fields and the address widths as they were.
C24_OtherSetsUntouched ==
    [][(pc = "do_reference" /\ ~IsNull(c))
       => /\ ~IsNull(c')
          /\ \A i \in DOMAIN c.blocks \ {MrIndex} : c'.blocks[i] = c.blocks[i]
          /\ DOMAIN c'.blocks = DOMAIN c.blocks
          /\ Geometry(c') = Geometry(c)]_vars

\* a reference has just filled a block while another set held a valid block
C24_Witness ==
    /\ ~IsNull(c)
    /\ c.number_of_sets >= 2
    /\ last # << >>
    /\ last[1].miss
    /\ \E i \in DOMAIN c.blocks \ {last[1].index} :
          c.blocks[i][0].valid /\ c.blocks[i][0].lru_value = 0

\* C25: two runs on the same geometry and the same sequence of addresses,
\* whatever the reference types of each and whatever their lru_value fields
\* held at the start, agree on the hit or miss of every reference and on the
\* total number of misses.
C25_OutcomeIndependentOfTypes ==
    (~IsNull(c) /\ ~IsNull(twin)) =>
        /\ misses(c.perf) = misses(twin.perf)
        /\ references(c.perf) = references(twin.perf)
        /\ pc = "do_reference" =>
              is_miss(MrTag, MrIndex, c)
                  = is_miss(get_tag_from_address(mr.address, twin),
                            get_index_from_address(mr.address, twin), twin)

\* the two runs took two misses and then a hit, on references of different
\* types that left different dirty flags
C25_Witness ==
    /\ ~IsNull(c)
    /\ ~IsNull(twin)
    /\ calls = 3
    /\ misses(c.perf) = 2
    /\ last # << >> /\ ~last[1].miss
    /\ ReferenceCounters(c.perf) # ReferenceCounters(twin.perf)
    /\ Contents(c) # Contents(twin)

====
